---------------------------- MODULE Spec2Model ----------------------------
(***************************************************************************)
(* Model of the retrieval core of cf_ai_gamifier (rag.ts): chunkText,      *)
(* generateEmbeddings, cosineSimilarity, findTopK and                      *)
(* createChunksWithEmbeddings; and of the Worker around it (index.ts): the *)
(* session store, handleSessionInit, handleGameGeneration and the          *)
(* scheduled cleanup; and of the page (public/chat.js): file upload, game  *)
(* type selection, generateGame, validateHTML and renderGameFullScreen.    *)
(*                                                                         *)
(* A JavaScript string is a sequence of one-character strings.  The        *)
(* alphabet holds one letter, one whitespace character and one sentence    *)
(* marker: the three character classes chunkText tells apart.              *)
(***************************************************************************)
EXTENDS Integers, Sequences, FiniteSets, TLC

VARIABLES
    \* chunkText(text, maxChunkSize)
    text,           \* the argument text
    maxChunkSize,   \* the argument maxChunkSize
    chunks,         \* the returned array
    cpc,            \* "call" before the call, "done" after it
    \* createChunksWithEmbeddings / generateEmbeddings
    texts,          \* textChunks, the argument texts of generateEmbeddings
    gpc,            \* where the call stands: "loop", "await", "failed", "returned"
    i,              \* the loop variable i of generateEmbeddings
    req,            \* per text, the state of its env.AI.run request
    embeddings,     \* the array embeddings of generateEmbeddings
    error,          \* the error the call threw, NoError if none
    collection,     \* what createChunksWithEmbeddings returned, NoCollection if nothing
    outOfOrder,     \* history: a request resolved while an earlier one was in flight
    \* findTopK(queryEmbedding, chunks, k)
    queryEmbedding, \* the argument queryEmbedding
    candidates,     \* the argument chunks
    k,              \* the argument k
    topK,           \* what the call returned or that it threw
    tpc,            \* "call" before the call, "done" after it
    built,          \* history: the collection as it was handed to the first query
    again,          \* history: a query has already been answered over the collection
    \* cosineSimilarity(a, b)
    vecA,           \* the argument a
    vecB,           \* the argument b
    similarity,     \* what the call returned or that it threw
    spc,            \* "call" before the call, "done" after it
    \* env.SESSIONS_KV and the time
    kv,             \* per session id, the stored SessionData or Absent
    clock,          \* what Date.now() returns, in hours
    \* one request to handleSessionInit or handleGameGeneration
    request,        \* the route and the body of the request
    sessionId,      \* crypto.randomUUID() or the id of the path
    hpc,            \* where the handler stands
    storeReads,     \* history: SESSIONS_KV.get calls of the request
    sessionData,    \* what SESSIONS_KV.get resolved with
    llm,            \* the state of the env.AI.run request for the game
    thrown,         \* what the catch block caught, NoError if nothing
    response,       \* the Response returned, NoResponse before
    \* one run of scheduled
    listed,         \* list.keys, as names
    pos,            \* the position in list.keys of the key being processed
    now,            \* const now = Date.now()
    startedAt,      \* history: the time at which the run began
    data,           \* the parsed value of the key being processed
    failedKeys,     \* history: the keys whose get or delete threw
    cleaned,        \* history: the sessions the run deleted
    kpc,            \* where the run stands
    \* the page
    pageSessionId,  \* let sessionId of chat.js
    selectedGameType, \* let selectedGameType
    disabled,       \* generateBtn.disabled
    controlsHidden, \* gameControls has the class hidden
    progressHidden, \* progressIndicator has the class hidden
    statusMessage,  \* what the statusMessage element was last made to show
    uploads,        \* the handleFileUpload calls that have not returned
    games,          \* the invocations of generateGame that have not returned
    generations,    \* history: the invocations of generateGame past its guard
    overlays,       \* the documents written into the iframes shown
    linesRead       \* history: the lines read from the streams that had a response

chunkVars == <<text, maxChunkSize, chunks, cpc>>

embedVars == <<texts, gpc, i, req, embeddings, error, collection, outOfOrder>>

topKVars == <<queryEmbedding, candidates, k, topK, tpc, built, again>>

simVars == <<vecA, vecB, similarity, spc>>

storeVars == <<kv, clock>>

handlerVars ==
    <<request, sessionId, hpc, storeReads, sessionData, llm, thrown, response>>

cleanupVars == <<listed, pos, now, startedAt, data, failedKeys, cleaned, kpc>>

workerVars == <<storeVars, handlerVars, cleanupVars>>

pageVars ==
    <<pageSessionId, selectedGameType, disabled, controlsHidden, progressHidden,
      statusMessage, uploads, games, generations, overlays, linesRead>>

vars == <<chunkVars, embedVars, topKVars, simVars, workerVars, pageVars>>

\* what an action of one part leaves alone
exceptChunk == <<embedVars, topKVars, simVars, workerVars, pageVars>>
exceptEmbed == <<chunkVars, topKVars, simVars, workerVars, pageVars>>
exceptTopK == <<chunkVars, embedVars, simVars, workerVars, pageVars>>
exceptSim == <<chunkVars, embedVars, topKVars, workerVars, pageVars>>
exceptHandler == <<chunkVars, embedVars, topKVars, simVars, storeVars, cleanupVars, pageVars>>
exceptCleanup == <<chunkVars, embedVars, topKVars, simVars, handlerVars, pageVars>>
exceptPage == <<chunkVars, embedVars, topKVars, simVars, workerVars>>

-----------------------------------------------------------------------------
(* Bounds *)

MaxLen == 7     \* longest text
MaxSize == 7    \* largest maxChunkSize
MaxTexts == 11  \* most texts handed to generateEmbeddings
MaxBadVectors == 1  \* most responses of one call that resolve without a usable vector
MaxChunks == 3  \* most chunks in the collection handed to findTopK
MaxK == 4       \* largest k handed to findTopK
MaxShared == 2  \* most chunks in a collection that several queries are run on
MaxBody == 4    \* longest text in the body of a request
MaxClock == 4   \* latest time, in hours
MaxUploads == 1 \* most handleFileUpload calls under way at a time
MaxGames == 2   \* most invocations of generateGame past its guard
MaxLines == 2   \* most lines with a response read from the streams

-----------------------------------------------------------------------------
(* Strings *)

Letter == "a"
Space == " "
Marker == "."

Alphabet == {Letter, Space, Marker}

\* [.!?]
IsMarker(c) == c = Marker

\* the characters String.prototype.trim removes
IsSpace(c) == c = Space

Strings(n) == UNION {[1..m -> Alphabet] : m \in 0..n}

\* s.slice(from, to), positions counted from 0 as in JavaScript, to clamped
\* to s.length
Slice(s, from, to) ==
    LET e == IF to > Len(s) THEN Len(s) ELSE to
    IN  IF from >= e THEN <<>> ELSE [x \in 1..(e - from) |-> s[from + x]]

RECURSIVE TrimStart(_)
TrimStart(s) ==
    IF s # <<>> /\ IsSpace(Head(s)) THEN TrimStart(Tail(s)) ELSE s

RECURSIVE TrimEnd(_)
TrimEnd(s) ==
    IF s # <<>> /\ IsSpace(s[Len(s)]) THEN TrimEnd(SubSeq(s, 1, Len(s) - 1)) ELSE s

\* trimStart in place of trim
TrimStartOnly(s) == TrimStart(s)

\* String.prototype.trim
Trim(s) == TrimEnd(TrimStart(s))

-----------------------------------------------------------------------------
(* text.match(/[^.!?]+[.!?]+/g) *)

\* the first position >= p of s that holds a marker, Len(s) + 1 if none
RECURSIVE NextMarker(_, _)
NextMarker(s, p) ==
    IF p > Len(s) \/ IsMarker(s[p]) THEN p ELSE NextMarker(s, p + 1)

\* the last position of the run of markers that starts at q
RECURSIVE MarkerRunEnd(_, _)
MarkerRunEnd(s, q) ==
    IF q + 1 <= Len(s) /\ IsMarker(s[q + 1]) THEN MarkerRunEnd(s, q + 1) ELSE q

\* the matches of the global regex from position p on, left to right: a match
\* starts at a non-marker, runs to the next marker and takes the whole run of
\* markers; a position holding a marker starts no match and is skipped, and a
\* run of non-markers that reaches the end of the text matches nothing.
RECURSIVE MatchFrom(_, _)
MatchFrom(s, p) ==
    IF p > Len(s) THEN <<>>
    ELSE IF IsMarker(s[p]) THEN MatchFrom(s, p + 1)
    ELSE LET q == NextMarker(s, p)
         IN  IF q > Len(s) THEN <<>>
             ELSE LET r == MarkerRunEnd(s, q)
                  IN  <<SubSeq(s, p, r)>> \o MatchFrom(s, r + 1)

\* String.prototype.match with a global regex: the matches (<<>> stands for null)
Match(s) == MatchFrom(s, 1)

\* text.match(...) || [text]
Sentences(s) == IF Match(s) = <<>> THEN <<s>> ELSE Match(s)

-----------------------------------------------------------------------------
(* chunkText *)

\* the for-of loop over sentences, from sentence idx on, with the chunks
\* pushed so far and the current chunk; yields <<chunks, currentChunk>>
RECURSIVE ChunkLoop(_, _, _, _, _)
ChunkLoop(sentences, idx, out, currentChunk, n) ==
    IF idx > Len(sentences) THEN <<out, currentChunk>>
    ELSE LET trimmedSentence == Trim(sentences[idx])
         IN  IF currentChunk # <<>>
                /\ Len(currentChunk) + Len(trimmedSentence) + 1 > n
             THEN ChunkLoop(sentences, idx + 1,
                            Append(out, Trim(currentChunk)), trimmedSentence, n)
             ELSE ChunkLoop(sentences, idx + 1, out,
                            currentChunk
                              \o (IF currentChunk # <<>> THEN <<Space>> ELSE <<>>)
                              \o trimmedSentence, n)

\* the fallback loop: text.slice(at, at + n).trim() for at = 0, n, 2n, ...
RECURSIVE SliceLoop(_, _, _)
SliceLoop(s, at, n) ==
    IF at >= Len(s) THEN <<>>
    ELSE <<Trim(Slice(s, at, at + n))>> \o SliceLoop(s, at + n, n)

chunkText(s, n) ==
    LET loop == ChunkLoop(Sentences(s), 1, <<>>, <<>>, n)
        afterFinal == IF Trim(loop[2]) # <<>>
                      THEN Append(loop[1], Trim(loop[2]))
                      ELSE loop[1]
    IN  IF Len(afterFinal) = 0 /\ Trim(s) # <<>>
        THEN SliceLoop(s, 0, n)
        ELSE afterFinal

-----------------------------------------------------------------------------
(* The call of chunkText *)

ChunkStart ==
    /\ text \in Strings(MaxLen)
    /\ maxChunkSize \in 1..MaxSize
    /\ chunks = <<>>
    /\ cpc = "call"

\* no chunkText call is under way
ChunkIdle ==
    /\ text = <<>>
    /\ maxChunkSize = 1
    /\ chunks = <<>>
    /\ cpc = "idle"

CallChunkText ==
    /\ cpc = "call"
    /\ chunks' = chunkText(text, maxChunkSize)
    /\ cpc' = "done"
    /\ UNCHANGED <<text, maxChunkSize>>
    /\ UNCHANGED exceptChunk

-----------------------------------------------------------------------------
(* generateEmbeddings and createChunksWithEmbeddings *)

\* const batchSize = 10
batchSize == 10

\* maxChunkSize: number = 500
DefaultChunkSize == 500

\* A text handed to generateEmbeddings on its own is named by a number; one
\* that chunkText returned is the chunk itself.  A request is "idle" before
\* env.AI.run is
\* called for its text and "inflight" until its promise settles.  The promise
\* resolves with
\*   "vector"     result.data[0] is an embedding of the model's dimensionality
\*   "malformed"  result.data[0] is truthy but no such embedding (an empty
\*                array, an array of another length, a string)
\*   "missing"    result, result.data or result.data[0] is falsy
\* or rejects because of
\*   "ratelimit"  quota or rate-limit exhaustion
\*   "unavailable" any other failure of the provider or the network
\* A request still in flight when the call fails stays "inflight": whatever it
\* settles to later, no code reads it.
Resolved == {"vector", "malformed", "missing"}
Rejected == {"ratelimit", "unavailable"}

\* result && result.data && result.data[0]
Truthy(o) == o \in {"vector", "malformed"}

\* result.data[0] of the request for text j
Vector(j) == [for |-> j, wellFormed |-> req[j] = "vector"]

\* embeddings[j] past the end of the array
Undefined == [for |-> 0, wellFormed |-> FALSE]

NoError == [thrownBy |-> "nobody", what |-> "nothing"]

\* new Error('Failed to generate embedding')
EmbeddingError == [thrownBy |-> "generateEmbeddings", what |-> "Failed to generate embedding"]

\* the rejection of env.AI.run, which no code between the provider and the
\* caller of generateEmbeddings catches or wraps
ProviderError(kind) == [thrownBy |-> "env.AI.run", what |-> kind]

\* every failure thrown as the same error
WrappedError(kind) == EmbeddingError

\* what the await of Promise.all throws when one request rejects
Rethrown(kind) == ProviderError(kind)

NoCollection == [returned |-> FALSE, chunks |-> <<>>]

\* a catch that starts the loop again in place of the throw leaving the call
RetryAfterThrow == "loop"

\* where a throw inside generateEmbeddings leaves the call: no try/catch
\* encloses the loop, so the call is over
AfterThrow == "failed"

\* embeddings[i + 1] in place of embeddings[i]
CombineShifted(ts, embs) ==
    [j \in 1..Len(ts) |->
        [text |-> ts[j],
         embedding |-> IF j + 1 <= Len(embs) THEN embs[j + 1] ELSE Undefined]]

\* textChunks.map((text, i) => ({text, embedding: embeddings[i]}))
Combine(ts, embs) ==
    [j \in 1..Len(ts) |->
        [text |-> ts[j],
         embedding |-> IF j <= Len(embs) THEN embs[j] ELSE Undefined]]

\* texts.slice(start) in place of texts.slice(start, start + batchSize)
BatchToEnd(start) == (start + 1)..Len(texts)

\* the positions (from 1) of texts.slice(start, start + batchSize)
Batch(start) ==
    (start + 1)..(IF start + batchSize > Len(texts) THEN Len(texts)
                  ELSE start + batchSize)

\* the batch's results last to first
BatchResultsReversed(start) ==
    [x \in 1..Cardinality(Batch(start)) |-> start + Cardinality(Batch(start)) + 1 - x]

\* batchResults: Promise.all keeps the order of batchPromises, whatever the
\* order in which they settled; the result is named by its request
BatchResults(start) == [x \in 1..Cardinality(Batch(start)) |-> start + x]

\* the for-of loop over batchResults from result x on: <<embeddings, threw>>
RECURSIVE ExtractLoop(_, _, _)
ExtractLoop(results, x, embs) ==
    IF x > Len(results) THEN <<embs, FALSE>>
    ELSE IF Truthy(req[results[x]])
         THEN ExtractLoop(results, x + 1, Append(embs, Vector(results[x])))
         ELSE <<embs, TRUE>>

BadVectors == {j \in DOMAIN req : req[j] \in {"malformed", "missing"}}

EmbedStart ==
    /\ \E n \in 0..MaxTexts : texts = [j \in 1..n |-> j]
    /\ gpc = "loop"
    /\ i = 0
    /\ req = [j \in 1..Len(texts) |-> "idle"]
    /\ embeddings = <<>>
    /\ error = NoError
    /\ collection = NoCollection
    /\ outOfOrder = FALSE

\* no createChunksWithEmbeddings call is under way
EmbedIdle ==
    /\ texts = <<>>
    /\ gpc = "idle"
    /\ i = 0
    /\ req = <<>>
    /\ embeddings = <<>>
    /\ error = NoError
    /\ collection = NoCollection
    /\ outOfOrder = FALSE

\* createChunksWithEmbeddings(text) from its first statement
BuildStart ==
    /\ text \in Strings(MaxLen)
    /\ maxChunkSize = DefaultChunkSize
    /\ chunks = <<>>
    /\ cpc = "call"
    /\ texts = <<>>
    /\ gpc = "create"
    /\ i = 0
    /\ req = <<>>
    /\ embeddings = <<>>
    /\ error = NoError
    /\ collection = NoCollection
    /\ outOfOrder = FALSE

\* lines 152-155: textChunks = chunkText(text), handed to generateEmbeddings
ChunkTheText ==
    /\ gpc = "create"
    /\ cpc = "call"
    /\ chunks' = chunkText(text, maxChunkSize)
    /\ cpc' = "done"
    /\ texts' = chunks'
    /\ req' = [j \in 1..Len(chunks') |-> "idle"]
    /\ gpc' = "loop"
    /\ UNCHANGED <<text, maxChunkSize, i, embeddings, error, collection, outOfOrder>>
    /\ UNCHANGED <<topKVars, simVars, workerVars, pageVars>>

\* lines 66-74: one more turn of the loop: the batch is sliced, env.AI.run is
\* called for each of its texts, and the call awaits Promise.all
DispatchBatch ==
    /\ gpc = "loop"
    /\ i < Len(texts)
    /\ req' = [j \in DOMAIN req |-> IF j \in Batch(i) THEN "inflight" ELSE req[j]]
    /\ gpc' = "await"
    /\ UNCHANGED <<texts, i, embeddings, error, collection, outOfOrder>>
    /\ UNCHANGED exceptEmbed

\* the provider resolves the request for text j
ProviderResolves(j, o) ==
    /\ gpc = "await"
    /\ req[j] = "inflight"
    /\ o \in Resolved
    /\ o # "vector" => Cardinality(BadVectors) < MaxBadVectors
    /\ req' = [req EXCEPT ![j] = o]
    /\ outOfOrder' = (outOfOrder \/ \E h \in 1..(j - 1) : req[h] = "inflight")
    /\ UNCHANGED <<texts, gpc, i, embeddings, error, collection>>
    /\ UNCHANGED exceptEmbed

\* the provider rejects the request for text j: Promise.all rejects with that
\* error at once, the await at line 74 throws it, and generateEmbeddings and
\* createChunksWithEmbeddings (line 155) reject with it
ProviderRejects(j, kind) ==
    /\ gpc = "await"
    /\ req[j] = "inflight"
    /\ kind \in Rejected
    /\ req' = [req EXCEPT ![j] = kind]
    /\ gpc' = AfterThrow
    /\ error' = Rethrown(kind)
    /\ UNCHANGED <<texts, i, embeddings, collection, outOfOrder>>
    /\ UNCHANGED exceptEmbed

\* lines 74-84: every request of the batch has resolved, the await returns and
\* the vectors are extracted; the first falsy one throws
ExtractBatch ==
    /\ gpc = "await"
    /\ \A j \in Batch(i) : req[j] \in Resolved
    /\ LET r == ExtractLoop(BatchResults(i), 1, embeddings)
       IN  /\ embeddings' = r[1]
           /\ IF r[2]
              THEN /\ gpc' = AfterThrow
                   /\ error' = EmbeddingError
                   /\ i' = i
              ELSE /\ gpc' = "loop"
                   /\ error' = error
                   /\ i' = i + batchSize
    /\ UNCHANGED <<texts, req, collection, outOfOrder>>
    /\ UNCHANGED exceptEmbed

\* lines 86 and 155-163: the loop is over, generateEmbeddings returns
\* embeddings and createChunksWithEmbeddings pairs them with the texts
ReturnChunks ==
    /\ gpc = "loop"
    /\ i >= Len(texts)
    /\ collection' = [returned |-> TRUE, chunks |-> Combine(texts, embeddings)]
    /\ gpc' = "returned"
    /\ UNCHANGED <<texts, i, req, embeddings, error, outOfOrder>>
    /\ UNCHANGED exceptEmbed

-----------------------------------------------------------------------------
(* cosineSimilarity and findTopK *)

\* The embeddings the calls are tried on.  A number[] is a sequence of
\* integers; two lengths occur, so that a.length !== b.length can happen.
Vectors ==
    {<<0, 0>>, <<1, 0>>, <<0, 1>>, <<1, 1>>, <<-1, 0>>, <<2, 1>>, <<-1, -1>>, <<1>>}

\* the sum over x of a[x] * b[x], as the loop of lines 105-109 accumulates it
RECURSIVE DotFrom(_, _, _)
DotFrom(a, b, x) ==
    IF x > Len(a) THEN 0 ELSE a[x] * b[x] + DotFrom(a, b, x + 1)

Dot(a, b) == DotFrom(a, b, 1)

Sgn(n) == IF n > 0 THEN 1 ELSE IF n < 0 THEN -1 ELSE 0

\* A similarity is the real number sign * sqrt(num / den), kept exact: the
\* rounding of IEEE doubles is not modelled.
Zero == [threw |-> FALSE, sign |-> 0, num |-> 0, den |-> 1]

\* throw new Error('Vectors must have the same length')
LengthError == [threw |-> TRUE, sign |-> 0, num |-> 0, den |-> 1]

\* 0 / 0, and any arithmetic on undefined: no number, neither above nor below
\* any other
NaN == [threw |-> FALSE, sign |-> 0, num |-> 0, den |-> 0]

\* the function without lines 97-99: the loop reads b[x] past the end of b
cosineSimilarityNoLengthCheck(a, b) ==
    IF Len(a) # Len(b) THEN NaN
    ELSE IF Dot(a, a) = 0 \/ Dot(b, b) = 0 THEN Zero
    ELSE [threw |-> FALSE,
          sign |-> Sgn(Dot(a, b)),
          num |-> Dot(a, b) * Dot(a, b),
          den |-> Dot(a, a) * Dot(b, b)]

\* the function without lines 114-116: the division is made by magnitude 0
cosineSimilarityNoZeroCheck(a, b) ==
    IF Len(a) # Len(b) THEN LengthError
    ELSE IF Dot(a, a) = 0 \/ Dot(b, b) = 0 THEN NaN
    ELSE [threw |-> FALSE,
          sign |-> Sgn(Dot(a, b)),
          num |-> Dot(a, b) * Dot(a, b),
          den |-> Dot(a, a) * Dot(b, b)]

\* with magnitudeA = sqrt(Dot(a, a)) and magnitudeB = sqrt(Dot(b, b)):
\* dotProduct / (magnitudeA * magnitudeB)
\*   = Sgn(dotProduct) * sqrt(dotProduct^2 / (Dot(a, a) * Dot(b, b)))
cosineSimilarity(a, b) ==
    IF Len(a) # Len(b) THEN LengthError
    ELSE IF Dot(a, a) = 0 \/ Dot(b, b) = 0 THEN Zero
    ELSE [threw |-> FALSE,
          sign |-> Sgn(Dot(a, b)),
          num |-> Dot(a, b) * Dot(a, b),
          den |-> Dot(a, a) * Dot(b, b)]

\* the sign of x - y for two similarities: num / den is the square of the
\* value and den > 0, so the signed squares are compared by cross multiplication
SignOfDifference(x, y) == Sgn(x.sign * x.num * y.den - y.sign * y.num * x.den)

\* the comparator (a, b) => b.similarity - a.similarity, as its sign
Comparator(a, b) == SignOfDifference(b.similarity, a.similarity)

\* e placed before the elements it ties with
RECURSIVE InsertBeforeTies(_, _)
InsertBeforeTies(sorted, e) ==
    IF sorted = <<>> THEN <<e>>
    ELSE IF Comparator(Head(sorted), e) < 0
         THEN <<Head(sorted)>> \o InsertBeforeTies(Tail(sorted), e)
         ELSE <<e>> \o sorted

\* e placed after every element the comparator does not order after it
RECURSIVE Insert(_, _)
Insert(sorted, e) ==
    IF sorted = <<>> THEN <<e>>
    ELSE IF Comparator(Head(sorted), e) <= 0
         THEN <<Head(sorted)>> \o Insert(Tail(sorted), e)
         ELSE <<e>> \o sorted

\* Array.prototype.sort with the comparator: a stable sort (ECMAScript 2019),
\* computed by inserting the elements in their order
RECURSIVE SortFrom(_, _, _)
SortFrom(items, x, sorted) ==
    IF x > Len(items) THEN sorted
    ELSE SortFrom(items, x + 1, Insert(sorted, items[x]))

Sort(items) == SortFrom(items, 1, <<>>)

\* slice(0, k + 1)
TakeOneMore(items, n) == Slice(items, 0, n + 1)

\* chunksWithSimilarity.slice(0, k)
Take(items, n) == Slice(items, 0, n)

\* A Chunk is named by its text, which is its position in the collection: two
\* chunks of a collection are two objects even when they hold equal vectors.
\* chunks.map(chunk => ({chunk, similarity: cosineSimilarity(...)})): a new
\* array, one entry per chunk
WithSimilarity(q, cs) ==
    [x \in 1..Len(cs) |->
        [chunk |-> cs[x], similarity |-> cosineSimilarity(q, cs[x].embedding)]]

Threw(items) == \E x \in 1..Len(items) : items[x].similarity.threw

findTopK(q, cs, n) ==
    LET chunksWithSimilarity == WithSimilarity(q, cs)
        top == Take(Sort(chunksWithSimilarity), n)
    IN  IF Threw(chunksWithSimilarity)
        THEN [threw |-> TRUE, chunks |-> <<>>]
        ELSE [threw |-> FALSE, chunks |-> [x \in 1..Len(top) |-> top[x].chunk]]

\* the argument after chunks.sort(...) in place of the sort of the mapped array
SortedInPlace(q, cs, n) ==
    IF Threw(WithSimilarity(q, cs)) THEN cs
    ELSE [x \in 1..Len(cs) |-> Sort(WithSimilarity(q, cs))[x].chunk]

\* the array passed as chunks, after the call: map and slice build new arrays
\* and sort reorders the array map built, so no statement writes to chunks
ArgumentAfter(q, cs, n) == cs

NoResult == [threw |-> FALSE, chunks |-> <<>>]

Collections(n) ==
    UNION {[1..m -> Vectors] : m \in 0..n}

TopKStart ==
    /\ queryEmbedding \in Vectors
    /\ \E es \in Collections(MaxChunks) :
          candidates = [x \in 1..Len(es) |-> [text |-> x, embedding |-> es[x]]]
    /\ k \in 0..MaxK
    /\ topK = NoResult
    /\ tpc = "call"
    /\ built = candidates
    /\ again = FALSE

\* the same over the collections several queries are run on
QueriesStart ==
    /\ queryEmbedding \in Vectors
    /\ \E es \in Collections(MaxShared) :
          candidates = [x \in 1..Len(es) |-> [text |-> x, embedding |-> es[x]]]
    /\ k \in 0..MaxK
    /\ topK = NoResult
    /\ tpc = "call"
    /\ built = candidates
    /\ again = FALSE

\* no findTopK call is under way
TopKIdle ==
    /\ queryEmbedding = <<>>
    /\ candidates = <<>>
    /\ k = 0
    /\ topK = NoResult
    /\ tpc = "idle"
    /\ built = <<>>
    /\ again = FALSE

\* findTopK is synchronous: the call runs from its first statement to its
\* return with no other code of the isolate in between
CallFindTopK ==
    /\ tpc = "call"
    /\ topK' = findTopK(queryEmbedding, candidates, k)
    /\ candidates' = ArgumentAfter(queryEmbedding, candidates, k)
    /\ tpc' = "done"
    /\ UNCHANGED <<queryEmbedding, k, built, again>>
    /\ UNCHANGED exceptTopK

\* another query, of another request, arrives for the same collection
NewQuery ==
    /\ tpc = "done"
    /\ queryEmbedding' \in Vectors
    /\ k' \in 0..MaxK
    /\ topK' = NoResult
    /\ tpc' = "call"
    /\ again' = TRUE
    /\ UNCHANGED <<candidates, built>>
    /\ UNCHANGED exceptTopK

\* cosineSimilarity on its own
SimStart ==
    /\ vecA \in Vectors
    /\ vecB \in Vectors
    /\ similarity = Zero
    /\ spc = "call"

\* no cosineSimilarity call of its own is under way
SimIdle ==
    /\ vecA = <<>>
    /\ vecB = <<>>
    /\ similarity = Zero
    /\ spc = "idle"

CallCosineSimilarity ==
    /\ spc = "call"
    /\ similarity' = cosineSimilarity(vecA, vecB)
    /\ spc' = "done"
    /\ UNCHANGED <<vecA, vecB>>
    /\ UNCHANGED exceptSim

-----------------------------------------------------------------------------
(* The session store *)

\* the session ids, in the order in which SESSIONS_KV.list returns their keys
IdOrder == <<"a1", "b2", "c3">>

SessionIds == {IdOrder[x] : x \in 1..Len(IdOrder)}

\* SESSIONS_KV.get resolves with null
Absent == [present |-> FALSE, chunks |-> <<>>, createdAt |-> 0]

\* {chunks, createdAt, originalFileName} under the key "session:" + id
Session(cs, at) == [present |-> TRUE, chunks |-> cs, createdAt |-> at]

\* chunk j of a stored collection, with a vector of the model's dimensionality
GoodChunk(j) == [text |-> <<Letter>>, embedding |-> [for |-> j, wellFormed |-> TRUE]]

\* the same with a truthy vector of another shape
OddChunk(j) == [text |-> <<Letter>>, embedding |-> [for |-> j, wellFormed |-> FALSE]]

\* collections handleSessionInit can have stored
StoredChunks == {<<GoodChunk(1)>>, <<GoodChunk(1), OddChunk(2)>>}

\* expirationTtl: 3600, in hours
Ttl == 1

\* no session is stored
StoreIdle ==
    /\ kv = [id \in SessionIds |-> Absent]
    /\ clock = 0

-----------------------------------------------------------------------------
(* handleSessionInit and handleGameGeneration *)

GameTypes == {"quiz", "simulation", "puzzle"}

\* what a body holds as gameType
RequestedTypes == GameTypes \cup {"trivia", "undefined"}

\* every gameType let through
AnyGameType(g) == TRUE

\* ["quiz", "simulation", "puzzle"].includes(gameType)
ValidGameType(g) == g \in GameTypes

\* `Create a ${gameType} game based on this educational content`
Query(g) == <<"Create a ", g, " game based on this educational content">>

\* request.json() throwing on a body that is no JSON
SyntaxError == [thrownBy |-> "request.json", what |-> "syntax"]

\* the error of cosineSimilarity leaving findTopK
LengthThrown == [thrownBy |-> "cosineSimilarity", what |-> "length"]

\* Messages of the errors handlers catch.  Those of the provider are not in
\* the repository: a rate-limit or quota rejection may carry any text, and
\* the set holds texts with and without the substrings the handlers look for.
Msg429 ==
    <<"4", "2", "9", " ", "T", "o", "o", " ", "M", "a", "n", "y", " ", "R",
      "e", "q", "u", "e", "s", "t", "s">>

MsgRateLimit ==
    <<"r", "a", "t", "e", " ", "l", "i", "m", "i", "t", " ", "e", "x", "c",
      "e", "e", "d", "e", "d">>

MsgQuota ==
    <<"q", "u", "o", "t", "a", " ", "e", "x", "c", "e", "e", "d", "e", "d">>

MsgTooMany ==
    <<"t", "o", "o", " ", "m", "a", "n", "y", " ", "r", "e", "q", "u", "e",
      "s", "t", "s">>

MsgRateLimitCapital ==
    <<"R", "a", "t", "e", " ", "l", "i", "m", "i", "t", " ", "e", "x", "c",
      "e", "e", "d", "e", "d">>

MsgAllocation ==
    <<"u", "s", "e", "d", " ", "u", "p", " ", "y", "o", "u", "r", " ", "d",
      "a", "i", "l", "y", " ", "f", "r", "e", "e", " ", "a", "l", "l", "o",
      "c", "a", "t", "i", "o", "n">>

MsgNetwork ==
    <<"N", "e", "t", "w", "o", "r", "k", " ", "c", "o", "n", "n", "e", "c",
      "t", "i", "o", "n", " ", "l", "o", "s", "t">>

MsgEmbedding ==
    <<"F", "a", "i", "l", "e", "d", " ", "t", "o", " ", "g", "e", "n", "e",
      "r", "a", "t", "e", " ", "e", "m", "b", "e", "d", "d", "i", "n", "g">>

MsgLength ==
    <<"V", "e", "c", "t", "o", "r", "s", " ", "m", "u", "s", "t", " ", "h",
      "a", "v", "e", " ", "t", "h", "e", " ", "s", "a", "m", "e", " ", "l",
      "e", "n", "g", "t", "h">>

MsgSyntax ==
    <<"U", "n", "e", "x", "p", "e", "c", "t", "e", "d", " ", "e", "n", "d",
      " ", "o", "f", " ", "J", "S", "O", "N", " ", "i", "n", "p", "u", "t">>

RateLimitMessages ==
    {Msg429, MsgRateLimit, MsgQuota, MsgTooMany, MsgRateLimitCapital, MsgAllocation}

UnavailableMessages == {MsgNetwork}

\* error instanceof Error ? error.message : String(error)
Messages(e) ==
    IF e.thrownBy = "env.AI.run"
    THEN IF e.what = "ratelimit" THEN RateLimitMessages ELSE UnavailableMessages
    ELSE IF e.thrownBy = "generateEmbeddings" THEN {MsgEmbedding}
    ELSE IF e.thrownBy = "cosineSimilarity" THEN {MsgLength}
    ELSE {MsgSyntax}

\* String.prototype.includes: sub occurs in s, case and all
Includes(s, sub) ==
    \E at \in 0..(Len(s) - Len(sub)) : Slice(s, at, at + Len(sub)) = sub

NeedleRateLimit ==
    <<"r", "a", "t", "e", " ", "l", "i", "m", "i", "t">>

NeedleQuota ==
    <<"q", "u", "o", "t", "a">>

Needle429 ==
    <<"4", "2", "9">>

NeedleTooMany ==
    <<"t", "o", "o", " ", "m", "a", "n", "y", " ", "r", "e", "q", "u", "e",
      "s", "t", "s">>

\* const isRateLimit = ...
IsRateLimit(m) ==
    \/ Includes(m, NeedleRateLimit)
    \/ Includes(m, NeedleQuota)
    \/ Includes(m, Needle429)
    \/ Includes(m, NeedleTooMany)

NoResponse ==
    [status |-> 0, retryAfter |-> "", error |-> "", message |-> "",
     details |-> <<>>, sessionId |-> "", chunkCount |-> 0, cookie |-> "",
     streams |-> FALSE]

\* new Response(JSON.stringify({error}), {status})
Respond(status, err) == [NoResponse EXCEPT !.status = status, !.error = err]

\* the 429 response of both catch blocks
DailyLimit ==
    [NoResponse EXCEPT
        !.status = 429,
        !.retryAfter = "86400",
        !.error = "Daily AI usage limit reached",
        !.message = "The free tier daily limit has been reached. Please try again tomorrow (resets at midnight UTC) or contact the administrator to upgrade."]

\* the 500 response of a catch block
Failure(err, m) == [NoResponse EXCEPT !.status = 500, !.error = err, !.details = m]

\* the responses a catch block can give to the error e
Catch(e, err) ==
    {IF IsRateLimit(m) THEN DailyLimit ELSE Failure(err, m) : m \in Messages(e)}

InitRequests ==
    [route : {"init"}, parses : BOOLEAN, hasText : BOOLEAN,
     gameType : {"none"}, sessionId : {"none"}]

GenerateRequests ==
    [route : {"generate"}, parses : BOOLEAN, hasText : {FALSE},
     gameType : RequestedTypes, sessionId : SessionIds]

\* A request arrives.  The store answers every read and write of a handler;
\* the faults of the store are part of the cleanup only.
HandlerStart ==
    /\ request \in InitRequests \cup GenerateRequests
    /\ IF request.route = "init"
       THEN /\ text \in (IF request.hasText THEN Strings(MaxBody) ELSE {<<>>})
            /\ maxChunkSize = DefaultChunkSize
            /\ chunks = <<>>
            /\ cpc = "call"
       ELSE ChunkIdle
    /\ EmbedIdle
    /\ kv \in [SessionIds -> {Absent} \cup {Session(cs, 0) : cs \in StoredChunks}]
    /\ request.route = "init" => \E id \in SessionIds : ~kv[id].present
    /\ clock = 0
    /\ sessionId = request.sessionId
    /\ hpc = "start"
    /\ storeReads = 0
    /\ sessionData = Absent
    /\ llm = "idle"
    /\ thrown = NoError
    /\ response = NoResponse

\* no request is being handled
HandlerIdle ==
    /\ request = [route |-> "none", parses |-> FALSE, hasText |-> FALSE,
                  gameType |-> "none", sessionId |-> "none"]
    /\ sessionId = "none"
    /\ hpc = "idle"
    /\ storeReads = 0
    /\ sessionData = Absent
    /\ llm = "idle"
    /\ thrown = NoError
    /\ response = NoResponse

\* the generic error text of the catch block of the route
GenericError ==
    IF request.route = "init" THEN "Failed to initialize session"
    ELSE "Failed to generate game"

\* await request.json() throws: the catch block answers
ParseFails ==
    /\ hpc = "start"
    /\ ~request.parses
    /\ thrown' = SyntaxError
    /\ response' \in Catch(SyntaxError, GenericError)
    /\ hpc' = "done"
    /\ UNCHANGED <<request, sessionId, storeReads, sessionData, llm>>
    /\ UNCHANGED exceptHandler

\* lines 427-435: !text || text.trim().length === 0
InitRejectsBlank ==
    /\ hpc = "start"
    /\ request.route = "init"
    /\ request.parses
    /\ ~request.hasText \/ Len(Trim(text)) = 0
    /\ response' = Respond(400, "Text content is required")
    /\ hpc' = "done"
    /\ UNCHANGED <<request, sessionId, storeReads, sessionData, llm, thrown>>
    /\ UNCHANGED exceptHandler

\* lines 438-441: the id is drawn and createChunksWithEmbeddings is called
InitStartsEmbedding ==
    /\ hpc = "start"
    /\ request.route = "init"
    /\ request.parses
    /\ request.hasText /\ Len(Trim(text)) # 0
    /\ \E id \in SessionIds : ~kv[id].present /\ sessionId' = id
    /\ gpc' = "create"
    /\ hpc' = "embedding"
    /\ UNCHANGED <<request, storeReads, sessionData, llm, thrown, response>>
    /\ UNCHANGED <<texts, i, req, embeddings, error, collection, outOfOrder>>
    /\ UNCHANGED <<chunkVars, topKVars, simVars, storeVars, cleanupVars, pageVars>>

\* lines 444-467: the session is put in the store and the id is returned
InitStores ==
    /\ hpc = "embedding"
    /\ request.route = "init"
    /\ gpc = "returned"
    /\ kv' = [kv EXCEPT ![sessionId] = Session(collection.chunks, clock)]
    /\ response' = [NoResponse EXCEPT !.status = 200,
                                      !.sessionId = sessionId,
                                      !.chunkCount = Len(collection.chunks),
                                      !.cookie = sessionId]
    /\ hpc' = "done"
    /\ UNCHANGED <<request, sessionId, storeReads, sessionData, llm, thrown>>
    /\ UNCHANGED <<chunkVars, embedVars, topKVars, simVars, clock, cleanupVars, pageVars>>

\* a session put under the id before its chunks are embedded, and left there
PutBeforeEmbedding(store, id) == [store EXCEPT ![id] = Session(<<>>, 0)]

\* the store after a catch block has run: the put of line 450 comes after the
\* await that threw and no catch block writes to the store
StoreAfterCatch(store, id) == store

\* the await of createChunksWithEmbeddings or of generateEmbeddings throws:
\* the catch block of the handler answers
EmbeddingCaught ==
    /\ hpc = "embedding"
    /\ gpc = "failed"
    /\ thrown' = error
    /\ response' \in Catch(error, GenericError)
    /\ kv' = StoreAfterCatch(kv, sessionId)
    /\ hpc' = "done"
    /\ UNCHANGED <<request, sessionId, storeReads, sessionData, llm>>
    /\ UNCHANGED <<chunkVars, embedVars, topKVars, simVars, clock, cleanupVars, pageVars>>

\* lines 522-530: the game type is none of the three
GenRejectsType ==
    /\ hpc = "start"
    /\ request.route = "generate"
    /\ request.parses
    /\ ~ValidGameType(request.gameType)
    /\ response' = Respond(400, "Invalid game type")
    /\ hpc' = "done"
    /\ UNCHANGED <<request, sessionId, storeReads, sessionData, llm, thrown>>
    /\ UNCHANGED exceptHandler

\* line 533: SESSIONS_KV.get is called
GenReadsStore ==
    /\ hpc = "start"
    /\ request.route = "generate"
    /\ request.parses
    /\ ValidGameType(request.gameType)
    /\ storeReads' = storeReads + 1
    /\ hpc' = "get"
    /\ UNCHANGED <<request, sessionId, sessionData, llm, thrown, response>>
    /\ UNCHANGED exceptHandler

\* lines 533-550: the store answers; without a session the handler returns
\* 404, with one it calls generateEmbeddings([query])
GenStoreAnswers ==
    /\ hpc = "get"
    /\ sessionData' = kv[sessionId]
    /\ IF ~kv[sessionId].present
       THEN /\ response' =
                Respond(404, "Session not found or expired. Please upload your file again.")
            /\ hpc' = "done"
            /\ UNCHANGED <<texts, gpc, req>>
       ELSE /\ texts' = <<Query(request.gameType)>>
            /\ req' = <<"idle">>
            /\ gpc' = "loop"
            /\ hpc' = "embedding"
            /\ response' = response
    /\ UNCHANGED <<request, sessionId, storeReads, llm, thrown>>
    /\ UNCHANGED <<i, embeddings, error, collection, outOfOrder>>
    /\ UNCHANGED <<chunkVars, topKVars, simVars, storeVars, cleanupVars, pageVars>>

\* whether cosineSimilarity may find the two vectors of different lengths: two
\* vectors of the model's dimensionality never differ, one of them and one of
\* another shape always do, two of another shape may
MayDiffer(v, w) == ~(v.wellFormed /\ w.wellFormed)

MustDiffer(v, w) == v.wellFormed # w.wellFormed

\* lines 550-574: generateEmbeddings has returned; findTopK ranks the stored
\* chunks against queryEmbeddings[0], throwing if a length differs (the order
\* of the chunks it returns only shapes the prompt), and the game is asked of
\* the model
GenRetrieves ==
    /\ hpc = "embedding"
    /\ request.route = "generate"
    /\ gpc = "loop"
    /\ i >= Len(texts)
    /\ gpc' = "returned"
    /\ \E threw \in BOOLEAN :
          /\ threw => \E x \in 1..Len(sessionData.chunks) :
                         MayDiffer(embeddings[1], sessionData.chunks[x].embedding)
          /\ ~threw => \A x \in 1..Len(sessionData.chunks) :
                          ~MustDiffer(embeddings[1], sessionData.chunks[x].embedding)
          /\ IF threw
             THEN /\ thrown' = LengthThrown
                  /\ response' \in Catch(LengthThrown, GenericError)
                  /\ hpc' = "done"
                  /\ llm' = llm
             ELSE /\ llm' = "inflight"
                  /\ hpc' = "generating"
                  /\ UNCHANGED <<thrown, response>>
    /\ UNCHANGED <<request, sessionId, storeReads, sessionData>>
    /\ UNCHANGED <<texts, i, req, embeddings, error, collection, outOfOrder>>
    /\ UNCHANGED <<chunkVars, topKVars, simVars, storeVars, cleanupVars, pageVars>>

\* lines 560-576: env.AI.run resolves with the raw response, which is returned
LlmResolves ==
    /\ hpc = "generating"
    /\ llm = "inflight"
    /\ llm' = "streamed"
    /\ response' = [NoResponse EXCEPT !.status = 200, !.streams = TRUE]
    /\ hpc' = "done"
    /\ UNCHANGED <<request, sessionId, storeReads, sessionData, thrown>>
    /\ UNCHANGED exceptHandler

\* env.AI.run rejects: the catch block answers
LlmRejects(kind) ==
    /\ hpc = "generating"
    /\ llm = "inflight"
    /\ kind \in Rejected
    /\ llm' = kind
    /\ thrown' = ProviderError(kind)
    /\ response' \in Catch(ProviderError(kind), GenericError)
    /\ hpc' = "done"
    /\ UNCHANGED <<request, sessionId, storeReads, sessionData>>
    /\ UNCHANGED exceptHandler

-----------------------------------------------------------------------------
(* scheduled *)

\* 2 * 60 * 60 * 1000 ms, in hours
TwoHours == 2

\* age >= 2 hours in place of age > 2 hours
AtLeastTwoHours(age) == age >= TwoHours

\* age > 2 * 60 * 60 * 1000
OlderThanTwoHours(age) == age > TwoHours

\* the ids of the set ids, in the order of IdOrder
KeysOf(ids) == SelectSeq(IdOrder, LAMBDA id : id \in ids)

\* A run begins over a store that holds sessions of any age: the store
\* removes a session at some time after its TTL, not at once.
CleanupStart ==
    /\ clock \in 0..MaxClock
    /\ kv \in [SessionIds ->
                 {Absent} \cup {Session(<<GoodChunk(1)>>, at) : at \in 0..clock}]
    /\ listed = <<>>
    /\ pos = 0
    /\ now = 0
    /\ startedAt = 0
    /\ data = Absent
    /\ failedKeys = {}
    /\ cleaned = {}
    /\ kpc = "start"

\* no run is under way
CleanupIdle ==
    /\ listed = <<>>
    /\ pos = 0
    /\ now = 0
    /\ startedAt = 0
    /\ data = Absent
    /\ failedKeys = {}
    /\ cleaned = {}
    /\ kpc = "idle"

\* lines 319-323: the run begins and calls SESSIONS_KV.list
CleanupBegins ==
    /\ kpc = "start"
    /\ startedAt' = clock
    /\ kpc' = "list"
    /\ UNCHANGED <<listed, pos, now, data, failedKeys, cleaned>>
    /\ UNCHANGED storeVars
    /\ UNCHANGED exceptCleanup

\* the key after the one at position pos, or the end of the run
Advance ==
    /\ pos' = pos + 1
    /\ kpc' = IF pos + 1 > Len(listed) THEN "done" ELSE "get"

\* lines 323-342: list resolves with the keys of the stored sessions, now is
\* read and SESSIONS_KV.get is called for the first key
ListReturns ==
    /\ kpc = "list"
    /\ listed' = KeysOf({id \in SessionIds : kv[id].present})
    /\ now' = clock
    /\ pos' = 1
    /\ kpc' = IF Len(listed') = 0 THEN "done" ELSE "get"
    /\ UNCHANGED <<startedAt, data, failedKeys, cleaned>>
    /\ UNCHANGED storeVars
    /\ UNCHANGED exceptCleanup

\* lines 360-362: list rejects: the outer catch logs it and the run is over
ListFails ==
    /\ kpc = "list"
    /\ kpc' = "done"
    /\ UNCHANGED <<listed, pos, now, startedAt, data, failedKeys, cleaned>>
    /\ UNCHANGED storeVars
    /\ UNCHANGED exceptCleanup

\* lines 342-353: get resolves; a session older than two hours is deleted,
\* any other, and a key that holds nothing any more, is passed over
GetReturns ==
    /\ kpc = "get"
    /\ data' = kv[listed[pos]]
    /\ IF kv[listed[pos]].present
          /\ OlderThanTwoHours(now - kv[listed[pos]].createdAt)
       THEN /\ kpc' = "delete"
            /\ pos' = pos
       ELSE Advance
    /\ UNCHANGED <<listed, now, startedAt, failedKeys, cleaned>>
    /\ UNCHANGED storeVars
    /\ UNCHANGED exceptCleanup

\* lines 354-356: get rejects: the inner catch logs it and the loop goes on
GetFails ==
    /\ kpc = "get"
    /\ failedKeys' = failedKeys \cup {listed[pos]}
    /\ Advance
    /\ UNCHANGED <<listed, now, startedAt, data, cleaned>>
    /\ UNCHANGED storeVars
    /\ UNCHANGED exceptCleanup

\* lines 349-351: delete resolves
DeleteReturns ==
    /\ kpc = "delete"
    /\ kv' = [kv EXCEPT ![listed[pos]] = Absent]
    /\ cleaned' = cleaned \cup {[id |-> listed[pos], createdAt |-> data.createdAt]}
    /\ Advance
    /\ UNCHANGED <<listed, now, startedAt, data, failedKeys>>
    /\ UNCHANGED clock
    /\ UNCHANGED exceptCleanup

\* lines 354-356: delete rejects: the inner catch logs it and the loop goes on
DeleteFails ==
    /\ kpc = "delete"
    /\ failedKeys' = failedKeys \cup {listed[pos]}
    /\ Advance
    /\ UNCHANGED <<listed, now, startedAt, data, cleaned>>
    /\ UNCHANGED storeVars
    /\ UNCHANGED exceptCleanup

\* an hour passes
Tick ==
    /\ kpc \notin {"idle", "done"}
    /\ clock < MaxClock
    /\ clock' = clock + 1
    /\ UNCHANGED kv
    /\ UNCHANGED cleanupVars
    /\ UNCHANGED exceptCleanup

\* the store removes a session whose TTL has run out
Expire(id) ==
    /\ kpc \notin {"idle", "done"}
    /\ kv[id].present
    /\ clock - kv[id].createdAt >= Ttl
    /\ kv' = [kv EXCEPT ![id] = Absent]
    /\ UNCHANGED clock
    /\ UNCHANGED cleanupVars
    /\ UNCHANGED exceptCleanup

\* a handleSessionInit of these hours puts a session under a new id
SessionCreated(id) ==
    /\ kpc \notin {"idle", "done"}
    /\ ~kv[id].present
    /\ \A x \in 1..Len(listed) : listed[x] # id
    /\ kv' = [kv EXCEPT ![id] = Session(<<GoodChunk(1)>>, clock)]
    /\ UNCHANGED clock
    /\ UNCHANGED cleanupVars
    /\ UNCHANGED exceptCleanup

-----------------------------------------------------------------------------
(* The page (public/chat.js): file upload, game type selection, generateGame,
   validateHTML and renderGameFullScreen.

   The generated HTML is a sequence of lexical tokens: the tags, attributes
   and words the tests of validateHTML look for, the characters that separate
   them, and a run of letters that stands for the bulk of a document. *)

\* a run of letters just long enough to bring a document that opens with
\* "<html>" to 300KB exactly
Filler == "xxx"

\* the size of a token, in bytes of its UTF-8 encoding
TokenBytes ==
    [tok \in {"<html", "<script", "<LINK", "src=", "href=", "import", "require",
              "(", " ", ">", Filler} |->
        CASE tok = "<html" -> 5
          [] tok = "<script" -> 7
          [] tok = "<LINK" -> 5
          [] tok = "src=" -> 4
          [] tok = "href=" -> 5
          [] tok = "import" -> 6
          [] tok = "require" -> 7
          [] tok = Filler -> 300 * 1024 - 6
          [] OTHER -> 1]

\* the token in lower case, as the flag i of the patterns reads it
LowerCase(tok) == IF tok = "<LINK" THEN "<link" ELSE tok

\* the token ends in a word character (a letter)
EndsInWord(tok) ==
    tok \in {"<html", "<script", "<LINK", "import", "require", Filler}

\* /<tag[^>]+attr=/i: the tag, one or more characters other than ">", the attribute
TagWithAttribute(html, tag, attr) ==
    \E a, b \in DOMAIN html :
        /\ LowerCase(html[a]) = tag
        /\ LowerCase(html[b]) = attr
        /\ b > a + 1
        /\ \A c \in (a + 1)..(b - 1) : html[c] # ">"

\* a word boundary lies before position p, which holds a word
BoundaryBefore(html, p) == p = 1 \/ ~EndsInWord(html[p - 1])

\* /\bimport\s+/i
ImportStatement(html) ==
    \E p \in DOMAIN html :
        /\ LowerCase(html[p]) = "import"
        /\ BoundaryBefore(html, p)
        /\ p + 1 \in DOMAIN html
        /\ html[p + 1] = " "

\* /\brequire\s*\(/i
RequireCall(html) ==
    \E p, q \in DOMAIN html :
        /\ LowerCase(html[p]) = "require"
        /\ BoundaryBefore(html, p)
        /\ q > p
        /\ html[q] = "("
        /\ \A c \in (p + 1)..(q - 1) : html[c] = " "

\* new Blob([html]).size
RECURSIVE BlobSize(_)
BlobSize(html) ==
    IF html = <<>> THEN 0 ELSE TokenBytes[Head(html)] + BlobSize(Tail(html))

\* the limit of the size test, in KB
LimitKB == 300

\* errors.push(e) when the test holds
PushIf(errors, test, e) == IF test THEN Append(errors, e) ELSE errors

\* validateHTML that reports every document valid
validateHTMLSkipped(html) == [valid |-> TRUE, errors |-> <<>>]

\* validateHTML(html): the four tests in their order, sizeKB > 300 as
\* size > 300 * 1024
validateHTML(html) ==
    LET e1 == PushIf(<<>>, TagWithAttribute(html, "<script", "src="),
                     "External script tags")
        e2 == PushIf(e1, TagWithAttribute(html, "<link", "href="),
                     "External stylesheet links")
        e3 == PushIf(e2, ImportStatement(html) \/ RequireCall(html),
                     "Import/require statements")
        e4 == PushIf(e3, ~\E p \in DOMAIN html : LowerCase(html[p]) = "<html",
                     "Missing HTML structure")
        e5 == PushIf(e4, BlobSize(html) > LimitKB * 1024,
                     "Game too large (>300KB)")
    IN  [valid |-> e5 = <<>>, errors |-> e5]

\* what one line of the stream adds to gameHTML when it parses as JSON with a
\* response
Pieces ==
    { <<"<html", ">">>, <<"<script", " ">>, <<"src=", ">">>,
      <<"<LINK", " ", "href=">>, <<"import", " ">>, <<"require", "(">>,
      <<Filler>> }

\* a line that JSON.parse rejects or that has no response: nothing is added
Ignored == <<>>

Lines == Pieces \cup {Ignored}

\* null
Null == "null"

\* the types of the game type buttons; the page tests the type only for being
\* set, so that one button stands for all of them
ButtonTypes == {"quiz"}

\* the statusMessage element
NoStatus == [type |-> "none", message |-> ""]

\* the message of an error that has its own wording in no line of the model
Other == "..."

\* the message of the error thrown when the validation fails, without the
\* errors joined to it
InvalidContent == "Generated game contains invalid content"

\* showStatus(type, message): the element shows the message; the timeout that
\* hides the element five seconds later is left out
Status(type, message) == [type |-> type, message |-> message]

\* an invocation of generateGame past its guard
Game(pc, html) == [pc |-> pc, gameHTML |-> html]

\* the page as it is loaded; the markup sets the disabled attribute or not
PageStart ==
    /\ pageSessionId = Null
    /\ selectedGameType = Null
    /\ disabled \in BOOLEAN
    /\ controlsHidden = TRUE
    /\ progressHidden = TRUE
    /\ statusMessage = NoStatus
    /\ uploads = 0
    /\ games = <<>>
    /\ generations = 0
    /\ overlays = <<>>
    /\ linesRead = 0

PageIdle ==
    /\ pageSessionId = Null
    /\ selectedGameType = Null
    /\ disabled = TRUE
    /\ controlsHidden = TRUE
    /\ progressHidden = TRUE
    /\ statusMessage = NoStatus
    /\ uploads = 0
    /\ games = <<>>
    /\ generations = 0
    /\ overlays = <<>>
    /\ linesRead = 0

\* updateGenerateButton() with the values of sessionId and selectedGameType
updateGenerateButton(id, type) == ~(id # Null /\ type # Null)

\* a click on a game type button
SelectGameType(type) ==
    /\ selectedGameType' = type
    /\ disabled' = updateGenerateButton(pageSessionId, type)
    /\ UNCHANGED <<pageSessionId, controlsHidden, progressHidden,
                   statusMessage, uploads, games, overlays, linesRead,
                   generations>>
    /\ UNCHANGED exceptPage

\* handleFileUpload(file) for a file too large or of another type
UploadRefused ==
    /\ statusMessage' = Status("error", Other)
    /\ UNCHANGED <<pageSessionId, selectedGameType, disabled, controlsHidden,
                   progressHidden, uploads, games, overlays, linesRead,
                   generations>>
    /\ UNCHANGED exceptPage

\* handleFileUpload(file) up to its first await
UploadStarts ==
    /\ uploads < MaxUploads
    /\ uploads' = uploads + 1
    /\ progressHidden' = FALSE
    /\ UNCHANGED <<pageSessionId, selectedGameType, disabled, controlsHidden,
                   statusMessage, games, overlays, linesRead, generations>>
    /\ UNCHANGED exceptPage

\* the session is created: the rest of the try block
UploadSucceeds ==
    /\ uploads > 0
    /\ uploads' = uploads - 1
    /\ pageSessionId' = IdOrder[1]
    /\ progressHidden' = TRUE
    /\ statusMessage' = Status("success", Other)
    /\ controlsHidden' = FALSE
    /\ disabled' = updateGenerateButton(pageSessionId', selectedGameType)
    /\ UNCHANGED <<selectedGameType, games, overlays, linesRead, generations>>
    /\ UNCHANGED exceptPage

\* the file has no text, or the request fails or is answered with an error:
\* the catch block
UploadFails ==
    /\ uploads > 0
    /\ uploads' = uploads - 1
    /\ progressHidden' = TRUE
    /\ statusMessage' = Status("error", Other)
    /\ UNCHANGED <<pageSessionId, selectedGameType, disabled, controlsHidden,
                   games, overlays, linesRead, generations>>
    /\ UNCHANGED exceptPage

\* a click on the generate button, which a disabled button does not take:
\* generateGame() up to its fetch
ClickGenerate ==
    /\ ~disabled
    /\ IF pageSessionId = Null \/ selectedGameType = Null
       THEN UNCHANGED <<disabled, progressHidden, games, generations>>
       ELSE /\ generations < MaxGames
            /\ generations' = generations + 1
            /\ disabled' = TRUE
            /\ progressHidden' = FALSE
            /\ games' = Append(games, Game("fetch", <<>>))
    /\ UNCHANGED <<pageSessionId, selectedGameType, controlsHidden,
                   statusMessage, uploads, overlays, linesRead>>
    /\ UNCHANGED exceptPage

\* the invocations without invocation g, which has returned
Without(gs, g) ==
    [x \in 1..(Len(gs) - 1) |-> IF x < g THEN gs[x] ELSE gs[x + 1]]

\* the catch block of generateGame in invocation g
CatchGenerate(g, message) ==
    /\ games' = Without(games, g)
    /\ progressHidden' = TRUE
    /\ statusMessage' = Status("error", message)
    /\ disabled' = FALSE

\* the fetch rejects, or the response is not ok
FetchFails(g) ==
    /\ games[g].pc = "fetch"
    /\ CatchGenerate(g, Other)
    /\ UNCHANGED <<pageSessionId, selectedGameType, controlsHidden, uploads,
                   overlays, linesRead, generations>>
    /\ UNCHANGED exceptPage

\* the response is ok: the reader is taken, gameHTML = ''
FetchResolves(g) ==
    /\ games[g].pc = "fetch"
    /\ games' = [games EXCEPT ![g] = Game("read", <<>>)]
    /\ UNCHANGED <<pageSessionId, selectedGameType, disabled, controlsHidden,
                   progressHidden, statusMessage, uploads, overlays, linesRead,
                   generations>>
    /\ UNCHANGED exceptPage

\* reader.read() resolves with a line: its response is added to gameHTML, a
\* line that does not parse is passed over
ReadLine(g, line) ==
    /\ games[g].pc = "read"
    /\ IF line = Ignored
       THEN UNCHANGED <<games, linesRead>>
       ELSE /\ linesRead < MaxLines
            /\ linesRead' = linesRead + 1
            /\ games' = [games EXCEPT ![g].gameHTML = @ \o line]
    /\ UNCHANGED <<pageSessionId, selectedGameType, disabled, controlsHidden,
                   progressHidden, statusMessage, uploads, overlays,
                   generations>>
    /\ UNCHANGED exceptPage

\* reader.read() rejects
ReadFails(g) ==
    /\ games[g].pc = "read"
    /\ CatchGenerate(g, Other)
    /\ UNCHANGED <<pageSessionId, selectedGameType, controlsHidden, uploads,
                   overlays, linesRead, generations>>
    /\ UNCHANGED exceptPage

\* reader.read() resolves with done: the HTML is validated, then rendered by
\* renderGameFullScreen or refused by the throw of line 264
ReadDone(g) ==
    /\ games[g].pc = "read"
    /\ LET validation == validateHTML(games[g].gameHTML)
       IN  IF validation.valid
           THEN /\ overlays' = Append(overlays, games[g].gameHTML)
                /\ games' = Without(games, g)
                /\ progressHidden' = TRUE
                /\ UNCHANGED <<statusMessage, disabled>>
           ELSE /\ CatchGenerate(g, InvalidContent)
                /\ UNCHANGED overlays
    /\ UNCHANGED <<pageSessionId, selectedGameType, controlsHidden, uploads,
                   linesRead, generations>>
    /\ UNCHANGED exceptPage

\* a click on the close button of overlay o
CloseGame(o) ==
    /\ o \in DOMAIN overlays
    /\ overlays' = Without(overlays, o)
    /\ disabled' = FALSE
    /\ statusMessage' = Status("success", Other)
    /\ UNCHANGED <<pageSessionId, selectedGameType, controlsHidden,
                   progressHidden, uploads, games, linesRead, generations>>
    /\ UNCHANGED exceptPage

-----------------------------------------------------------------------------
(* Specifications *)

\* neither a request nor a cleanup run is under way
WorkerIdle == StoreIdle /\ HandlerIdle /\ CleanupIdle

\* chunkText: the arguments are drawn, the call is made
ChunkInit == ChunkStart /\ EmbedIdle /\ TopKIdle /\ SimIdle /\ WorkerIdle /\ PageIdle

ChunkNext == CallChunkText

SpecChunk == ChunkInit /\ [][ChunkNext]_vars

\* createChunksWithEmbeddings over any number of texts, against a provider
\* that settles the requests in any order and with any outcome
EmbedInit == ChunkIdle /\ EmbedStart /\ TopKIdle /\ SimIdle /\ WorkerIdle /\ PageIdle

EmbedNext ==
    \/ DispatchBatch
    \/ \E j \in DOMAIN req : \E o \in Resolved : ProviderResolves(j, o)
    \/ \E j \in DOMAIN req : \E kind \in Rejected : ProviderRejects(j, kind)
    \/ ExtractBatch
    \/ ReturnChunks

SpecEmbed == EmbedInit /\ [][EmbedNext]_vars

\* createChunksWithEmbeddings from the text it is given
BuildInit == BuildStart /\ TopKIdle /\ SimIdle /\ WorkerIdle /\ PageIdle

BuildNext ==
    \/ ChunkTheText
    \/ EmbedNext

SpecBuild == BuildInit /\ [][BuildNext]_vars

\* findTopK over any query, collection and k
TopKInit == ChunkIdle /\ EmbedIdle /\ TopKStart /\ SimIdle /\ WorkerIdle /\ PageIdle

TopKNext == CallFindTopK

SpecTopK == TopKInit /\ [][TopKNext]_vars

\* cosineSimilarity over any two vectors
SimInit == ChunkIdle /\ EmbedIdle /\ TopKIdle /\ SimStart /\ WorkerIdle /\ PageIdle

SimNext == CallCosineSimilarity

SpecSimilarity == SimInit /\ [][SimNext]_vars

\* any number of queries, one after the other, over one collection
QueriesInit == ChunkIdle /\ EmbedIdle /\ QueriesStart /\ SimIdle /\ WorkerIdle /\ PageIdle

QueriesNext ==
    \/ CallFindTopK
    \/ NewQuery

SpecQueries == QueriesInit /\ [][QueriesNext]_vars

\* one request to handleSessionInit or to handleGameGeneration, against a
\* provider that settles the requests with any outcome
HandlerInit == HandlerStart /\ TopKIdle /\ SimIdle /\ CleanupIdle /\ PageIdle

HandlerNext ==
    \/ ParseFails
    \/ InitRejectsBlank
    \/ InitStartsEmbedding
    \/ ChunkTheText
    \/ DispatchBatch
    \/ \E j \in DOMAIN req : \E o \in Resolved : ProviderResolves(j, o)
    \/ \E j \in DOMAIN req : \E kind \in Rejected : ProviderRejects(j, kind)
    \/ ExtractBatch
    \/ request.route = "init" /\ ReturnChunks
    \/ InitStores
    \/ EmbeddingCaught
    \/ GenRejectsType
    \/ GenReadsStore
    \/ GenStoreAnswers
    \/ GenRetrieves
    \/ \E kind \in Rejected : LlmRejects(kind)
    \/ LlmResolves

SpecHandlers == HandlerInit /\ [][HandlerNext]_vars

\* one run of scheduled, while time passes, sessions expire and new ones are
\* stored, against a store whose calls may fail
CleanupInit ==
    ChunkIdle /\ EmbedIdle /\ TopKIdle /\ SimIdle /\ HandlerIdle /\ CleanupStart
    /\ PageIdle

CleanupNext ==
    \/ CleanupBegins
    \/ ListReturns
    \/ ListFails
    \/ GetReturns
    \/ GetFails
    \/ DeleteReturns
    \/ DeleteFails
    \/ Tick
    \/ \E id \in SessionIds : Expire(id)
    \/ \E id \in SessionIds : SessionCreated(id)

SpecCleanup == CleanupInit /\ [][CleanupNext]_vars

\* the page in the hands of a user, against a server and a network that answer
\* the requests in any way and in any order
PageInit ==
    ChunkIdle /\ EmbedIdle /\ TopKIdle /\ SimIdle /\ WorkerIdle /\ PageStart

PageNext ==
    \/ \E type \in ButtonTypes : SelectGameType(type)
    \/ UploadRefused
    \/ UploadStarts
    \/ UploadSucceeds
    \/ UploadFails
    \/ ClickGenerate
    \/ \E g \in DOMAIN games : FetchFails(g)
    \/ \E g \in DOMAIN games : FetchResolves(g)
    \/ \E g \in DOMAIN games : \E line \in Lines : ReadLine(g, line)
    \/ \E g \in DOMAIN games : ReadFails(g)
    \/ \E g \in DOMAIN games : ReadDone(g)
    \/ \E o \in DOMAIN overlays : CloseGame(o)

SpecPage == PageInit /\ [][PageNext]_vars

-----------------------------------------------------------------------------
(* Properties of chunkText *)

IsBlank(s) == Trim(s) = <<>>

\* the chunks joined end to end
RECURSIVE Concat(_)
Concat(ss) == IF ss = <<>> THEN <<>> ELSE Head(ss) \o Concat(Tail(ss))

\* s with every whitespace character removed: the content that is left when
\* whitespace is not told apart
StripSpaces(s) == SelectSeq(s, LAMBDA c : ~IsSpace(c))

\* the sentences of s: the marker-terminated runs the regex matches, trimmed
SentenceSet(s) == {Trim(Match(s)[j]) : j \in 1..Len(Match(s))}

\* C1: for a non-blank text every returned chunk has length <= maxChunkSize,
\* except a chunk that is one single sentence longer than maxChunkSize.
C1_ChunkBound ==
    (cpc = "done" /\ ~IsBlank(text)) =>
        \A c \in 1..Len(chunks) :
            \/ Len(chunks[c]) <= maxChunkSize
            \/ chunks[c] \in SentenceSet(text)

\* C2: the chunks, concatenated in order, hold the same content as the text
\* once whitespace is set aside: nothing of the text is lost or duplicated.
C2_ContentPreserved ==
    cpc = "done" => StripSpaces(Concat(chunks)) = StripSpaces(text)

\* C3: a non-blank text in which the regex matches nothing is returned as the
\* trimmed slices of maxChunkSize characters.
C3_FallbackSlicing ==
    (cpc = "done" /\ ~IsBlank(text) /\ Match(text) = <<>>) =>
        chunks = SliceLoop(text, 0, maxChunkSize)

\* C4: an empty or all-whitespace text yields no chunk, and every chunk of any
\* other text is non-empty with no whitespace at either end.
C4_BlankAndTrimmed ==
    cpc = "done" =>
        /\ IsBlank(text) => chunks = <<>>
        /\ ~IsBlank(text) =>
              \A c \in 1..Len(chunks) :
                  /\ chunks[c] # <<>>
                  /\ ~IsSpace(chunks[c][1])
                  /\ ~IsSpace(chunks[c][Len(chunks[c])])

\* a text that starts with whitespace was cut into two chunks or more
C4_Witness ==
    /\ cpc = "done"
    /\ text # <<>> /\ IsSpace(text[1])
    /\ Len(chunks) >= 2

-----------------------------------------------------------------------------
(* Properties of generateEmbeddings and createChunksWithEmbeddings *)

\* the batch text j falls in, counted from 0
BatchOf(j) == (j - 1) \div batchSize

\* C5: when every provider request succeeds the call returns one vector per
\* text, the vector at position j being the provider's response for texts[j],
\* whatever the order in which the requests completed; and the call fails only
\* when some request did not succeed.
C5_OrderPreserved ==
    /\ gpc = "returned" =>
          /\ Len(embeddings) = Len(texts)
          /\ \A j \in 1..Len(texts) : embeddings[j] = Vector(j)
    /\ gpc = "failed" => \E j \in DOMAIN req : req[j] \in Rejected \cup {"missing"}

\* two batches returned, every request having succeeded, and some request
\* completed before an earlier one
C5_Witness ==
    /\ gpc = "returned"
    /\ Len(texts) > batchSize
    /\ \A j \in DOMAIN req : req[j] = "vector"
    /\ outOfOrder

C7_FailsAsAWhole ==
    /\ (\E j \in DOMAIN req : req[j] \in {"malformed", "missing"} \cup Rejected)
          => collection = NoCollection
    /\ collection.returned =>
          /\ Len(collection.chunks) = Len(texts)
          /\ \A j \in 1..Len(texts) :
                /\ collection.chunks[j].embedding.for = j
                /\ collection.chunks[j].embedding.wellFormed

-----------------------------------------------------------------------------
(* Properties of findTopK *)

\* every embedding of the collection has the length of the query
SameDimension ==
    \A x \in 1..Len(candidates) : Len(candidates[x].embedding) = Len(queryEmbedding)

\* the similarity to the query of the chunk c
SimilarityOf(c) == cosineSimilarity(queryEmbedding, c.embedding)

Min(a, b) == IF a < b THEN a ELSE b

Returned == topK.chunks

\* C9: over a collection of the query's dimensionality findTopK returns
\* exactly min(k, collection length) chunks, each a member of the collection
\* and no member twice; with k = 0 none, with k >= the length all of them.
C9_Length ==
    (tpc = "done" /\ SameDimension) =>
        /\ ~topK.threw
        /\ Len(Returned) = Min(k, Len(candidates))
        /\ \A x \in 1..Len(Returned) :
              \E y \in 1..Len(candidates) : Returned[x] = candidates[y]
        /\ \A x, y \in 1..Len(Returned) :
              x # y => Returned[x].text # Returned[y].text
        /\ k = 0 => Returned = <<>>
        /\ k >= Len(candidates) =>
              \A y \in 1..Len(candidates) :
                  \E x \in 1..Len(Returned) : Returned[x] = candidates[y]

\* more chunks were asked for than the collection of two or more holds
C9_Witness ==
    /\ tpc = "done"
    /\ SameDimension
    /\ Len(candidates) >= 2
    /\ k > Len(candidates)
    /\ Len(Returned) = Len(candidates)

\* C10: the returned chunks are in non-increasing order of similarity to the
\* query, no chunk left out is strictly more similar than a returned one, and
\* returned chunks of equal similarity keep their order in the collection.
C10_Ranked ==
    (tpc = "done" /\ ~topK.threw) =>
        /\ \A x, y \in 1..Len(Returned) :
              x < y =>
                 /\ SignOfDifference(SimilarityOf(Returned[x]),
                                     SimilarityOf(Returned[y])) >= 0
                 /\ SignOfDifference(SimilarityOf(Returned[x]),
                                     SimilarityOf(Returned[y])) = 0
                       => Returned[x].text < Returned[y].text
        /\ \A y \in 1..Len(candidates) :
              (\A x \in 1..Len(Returned) : Returned[x] # candidates[y]) =>
                 \A x \in 1..Len(Returned) :
                    SignOfDifference(SimilarityOf(candidates[y]),
                                     SimilarityOf(Returned[x])) <= 0

\* two chunks of equal similarity were returned, and a less similar chunk that
\* stands before one of them in the collection was left out
C10_Witness ==
    /\ tpc = "done"
    /\ ~topK.threw
    /\ Len(Returned) = 2
    /\ SignOfDifference(SimilarityOf(Returned[1]), SimilarityOf(Returned[2])) = 0
    /\ \E y \in 1..Len(candidates) :
          /\ candidates[y] # Returned[1]
          /\ candidates[y] # Returned[2]
          /\ y < Returned[2].text
          /\ SignOfDifference(SimilarityOf(candidates[y]),
                              SimilarityOf(Returned[2])) < 0

\* C11: cosineSimilarity throws its length error whenever the two vectors
\* differ in length, and so findTopK throws, returning no chunk, as soon as one
\* chunk of the collection has an embedding of another length than the query.
C11_DimensionMismatch ==
    tpc = "done" =>
        /\ \A x \in 1..Len(candidates) :
              Len(candidates[x].embedding) # Len(queryEmbedding) =>
                 cosineSimilarity(queryEmbedding, candidates[x].embedding) = LengthError
        /\ ~SameDimension => (topK.threw /\ Returned = <<>>)

\* the call threw over a collection whose first chunk has the query's
\* dimensionality and whose last has not
C11_Witness ==
    /\ tpc = "done"
    /\ Len(candidates) >= 2
    /\ Len(candidates[1].embedding) = Len(queryEmbedding)
    /\ Len(candidates[Len(candidates)].embedding) # Len(queryEmbedding)
    /\ topK.threw

-----------------------------------------------------------------------------
(* Properties of cosineSimilarity *)

Magnitude0(v) == Dot(v, v) = 0

\* C12: for two vectors of equal length of which one has magnitude zero,
\* cosineSimilarity returns the number 0: it does not throw and does not
\* return NaN, the same zero vector passed twice included.
C12_ZeroMagnitude ==
    (spc = "done" /\ Len(vecA) = Len(vecB) /\ (Magnitude0(vecA) \/ Magnitude0(vecB))) =>
        /\ ~similarity.threw
        /\ similarity # NaN
        /\ similarity = Zero

\* the zero vector was compared with itself
C12_Witness ==
    /\ spc = "done"
    /\ vecA = vecB
    /\ Magnitude0(vecA)
    /\ similarity = Zero

-----------------------------------------------------------------------------
(* Properties of queries over one collection *)

-----------------------------------------------------------------------------
(* Properties of createChunksWithEmbeddings *)

\* C13: a returned collection has one Chunk per text chunkText gave, in the
\* same order, and its j-th Chunk pairs the j-th text with the vector the
\* provider resolved the request for that very text with.
C13_PairedInOrder ==
    collection.returned =>
        /\ Len(collection.chunks) = Len(texts)
        /\ \A j \in 1..Len(texts) :
              /\ collection.chunks[j].text = texts[j]
              /\ Truthy(req[j])
              /\ collection.chunks[j].embedding = Vector(j)

\* a collection over two batches was returned, the last request of the first
\* batch having resolved before the first
C13_Witness ==
    /\ collection.returned
    /\ Len(collection.chunks) > batchSize
    /\ outOfOrder
    /\ collection.chunks[batchSize].embedding.for = batchSize
    /\ collection.chunks[Len(texts)].text = texts[Len(texts)]

\* C14, as claimed: createChunksWithEmbeddings over an empty or all-whitespace
\* text fails with an error; it returns no collection, not even an empty one.
C14_BlankInputFails ==
    (gpc # "create" /\ IsBlank(text)) => (gpc # "returned" /\ ~collection.returned)

\* C15, as claimed: whatever the provider resolves the requests with, the
\* embeddings of a returned collection all have one dimensionality.
C15_SingleDimension ==
    collection.returned =>
        \A j \in 1..Len(collection.chunks) :
            collection.chunks[j].embedding.wellFormed
               = collection.chunks[1].embedding.wellFormed

\* C17: generateEmbeddings never retries: a request is issued for a text that
\* had none yet, a text that had one never goes back to having none, and once
\* the call has failed no request is issued.
C17_NoRetry ==
    [][/\ \A j \in DOMAIN req :
             /\ (req'[j] = "inflight" /\ req[j] # "inflight") => req[j] = "idle"
             /\ req[j] # "idle" => (j \in DOMAIN req' /\ req'[j] # "idle")
       /\ gpc = "failed" => (req' = req /\ gpc' = "failed")]_vars

\* the call failed on a rejection in its first batch, with another request of
\* that batch resolved and the texts of the second batch never sent
C17_Witness ==
    /\ gpc = "failed"
    /\ Len(texts) > batchSize
    /\ \E j, h \in 1..batchSize : req[j] \in Rejected /\ req[h] = "vector"
    /\ \A j \in (batchSize + 1)..Len(texts) : req[j] = "idle"

-----------------------------------------------------------------------------
(* Properties of the handlers *)

\* no request has been issued to the AI provider
NoAiRequest ==
    /\ \A j \in DOMAIN req : req[j] = "idle"
    /\ llm = "idle"

\* C18, as claimed: whenever a request to the AI provider was rejected for
\* rate limiting or quota exhaustion during a session init or a game
\* generation, the handler answers 429 with Retry-After 86400 and the
\* daily-limit message, never the generic 500.
C18_RateLimitAnswered ==
    (hpc = "done" /\ thrown = ProviderError("ratelimit")) => response = DailyLimit

\* C20: a game generation for a session id without an entry in the store is
\* answered 404 'Session not found or expired' with no request issued to the
\* AI provider, and one with an invalid game type is answered 400 before any
\* read of the store and any request to the AI provider.
C20_RejectedBeforeWork ==
    (request.route = "generate" /\ hpc = "done" /\ request.parses) =>
        /\ request.gameType \notin GameTypes =>
              /\ response = Respond(400, "Invalid game type")
              /\ storeReads = 0
              /\ NoAiRequest
        /\ (request.gameType \in GameTypes /\ ~kv[sessionId].present) =>
              /\ response =
                    Respond(404, "Session not found or expired. Please upload your file again.")
              /\ storeReads = 1
              /\ NoAiRequest
        /\ response.status \in {400, 404} => NoAiRequest

\* a valid game type was asked for a session that is not in a store that
\* holds other sessions, and the answer was 404
C20_Witness ==
    /\ request.route = "generate"
    /\ hpc = "done"
    /\ request.gameType \in GameTypes
    /\ ~kv[sessionId].present
    /\ \E id \in SessionIds : kv[id].present
    /\ response.status = 404
    /\ storeReads = 1

-----------------------------------------------------------------------------
(* Properties of the scheduled cleanup *)

-----------------------------------------------------------------------------
(* Further properties of generateEmbeddings and of handleSessionInit *)

\* the requests of the call that are in flight
InFlight == {j \in DOMAIN req : req[j] = "inflight"}

\* C22: at every moment of a generateEmbeddings call at most batchSize (10)
\* requests issued by the call are in flight, however many texts it is given.
C22_AtMostBatchInFlight == Cardinality(InFlight) <= batchSize

\* of more than ten texts exactly ten are in flight, those of the first batch
C22_Witness ==
    /\ Len(texts) > batchSize
    /\ Cardinality(InFlight) = batchSize
    /\ InFlight = 1..batchSize

\* C23: handleSessionInit changes the store in one step only, the put that
\* follows the return of createChunksWithEmbeddings with a vector accepted for
\* every chunk; that step writes the one session of the drawn id and answers
\* 200 with that id, its cookie and the number of chunks stored; a 400, 429 or
\* 500 answer comes with the store as it was and with no id and no cookie.
C23_StoredAfterEmbedding ==
    [][request.route = "init" =>
          /\ kv' # kv =>
                /\ gpc = "returned"
                /\ \A j \in DOMAIN req : Truthy(req[j])
                /\ ~kv[sessionId].present
                /\ kv'[sessionId].present
                /\ \A id \in SessionIds \ {sessionId} : kv'[id] = kv[id]
                /\ Len(kv'[sessionId].chunks) = Len(texts)
                /\ response'.status = 200
                /\ response'.sessionId = sessionId
                /\ response'.cookie = sessionId
                /\ response'.chunkCount = Len(kv'[sessionId].chunks)
          /\ response'.status \in {400, 429, 500} =>
                /\ kv' = kv
                /\ response'.sessionId = ""
                /\ response'.cookie = ""
          /\ (response'.status = 200 /\ response.status # 200) => kv' # kv]_vars

\* a session init was answered 429 after the embedding request was rejected,
\* and the id drawn for it holds no session in a store that holds others
C23_Witness ==
    /\ request.route = "init"
    /\ hpc = "done"
    /\ response.status = 429
    /\ \E j \in DOMAIN req : req[j] = "ratelimit"
    /\ ~kv[sessionId].present
    /\ \E id \in SessionIds : kv[id].present

-----------------------------------------------------------------------------
(* Properties of the page *)

\* the five conditions on a generated document: no external script, no
\* external stylesheet link, no import or require, an <html> tag, at most 300KB
PassesTests(html) ==
    /\ ~TagWithAttribute(html, "<script", "src=")
    /\ ~TagWithAttribute(html, "<link", "href=")
    /\ ~ImportStatement(html)
    /\ ~RequireCall(html)
    /\ \E p \in DOMAIN html : LowerCase(html[p]) = "<html"
    /\ BlobSize(html) <= LimitKB * 1024

\* invocation g of generateGame returns in this step, its stream read to the end
\* or broken off
Returns(g) ==
    /\ Len(games') < Len(games)
    /\ games[g].pc = "read"
    /\ games' = Without(games, g)

C24_OneGenerationInFlight ==
    /\ games # <<>> => disabled
    /\ Len(games) <= 1

=============================================================================
